---- MODULE Spec2Model ----
(***************************************************************************)
(* Model of dms_guild_sales: src/fetch_dmsguild_royalties.py, and the      *)
(* product scraper of src/get_product_info.py (SpecProducts).              *)
(*                                                                         *)
(* Text is a sequence of one-character strings, so that strip, replace,    *)
(* int(), float(), str() and the CSV writer and reader are computed on     *)
(* characters.  A cell value is a record [t, s, n]:                        *)
(*   t = "str"   : Python str,   s its characters                          *)
(*   t = "int"   : Python int / numpy int64, n its value                   *)
(*   t = "float" : Python float / float64, n its value in hundredths       *)
(*   t = "nan"   : float NaN (pandas' missing value)                       *)
(*   t = "none"  : Python None                                             *)
(* Floats of the model have at most two decimals, so hundredths are exact. *)
(***************************************************************************)
EXTENDS Integers, Sequences, FiniteSets, TLC

VARIABLES
  html,    \* the rows of the fetched results table (the td texts of each tr)
  month,   \* the month number handed to process_sales_table
  year,    \* the year handed to process_sales_table
  df,      \* the table in hand: None, a DataFrame, or Raised
  file,    \* the local snapshot file at the report path
  loaded,  \* what load_existing_report returned
  stage,   \* how far the parse / save / load sequence has come
  sheet,   \* the remote sheet
  last,    \* the latest call of update_google_sheet and its outcome
  prev,    \* the call before it
  ncalls,  \* the number of calls of update_google_sheet so far
  steps,   \* the steps the main flow has taken, in order
  now,     \* the wall clock: the year and month of datetime.now()
  reports, \* the reports directory: whether it exists, and its files by path
  report_filepath, \* the path the run computed with get_report_filepath()
  nruns,   \* the number of runs of the script started so far
  value,   \* the value handed to clean_value_for_sheets
  cleaned, \* what clean_value_for_sheets returned for it
  listing, \* the listing pages of the product scraper: the page shown, then
           \* the pages behind its [Next >>] links
  output_file, \* the product file dmsguild_products.csv
  product_df,  \* df of fetch_product_data
  existing_df, \* existing_df of navigate_products
  new_urls,    \* the URLs of new_urls that navigate_products has yet to process
  saved,       \* the saves of the product file the run has made, in order:
               \* the file's records before the save and after it
  calls        \* the tables handed to update_google_sheet since the sheet was
               \* empty, in order (kept by SpecAppend)

pvars == <<html, month, year, df, file, loaded, stage>>

svars == <<sheet, last, prev, ncalls>>

cvars == <<now, reports, report_filepath, nruns>>

kvars == <<value, cleaned>>

gvars == <<listing, output_file, product_df, existing_df, new_urls, saved>>

hvars == <<calls>>

vars ==
  <<html, month, year, df, file, loaded, stage, sheet, last, prev, ncalls, steps,
    now, reports, report_filepath, nruns, value, cleaned, listing, output_file,
    product_df, existing_df, new_urls, saved, calls>>

\* no run of the script under way: the clock at April 2024, no reports
\* directory
RunsIdle ==
  /\ now = [year |-> 2024, month |-> 4]
  /\ reports = [exists |-> FALSE, files |-> <<>>]
  /\ report_filepath = <<>>
  /\ nruns = 0

\* no value in hand
Unset == [t |-> "unset", s |-> <<>>, n |-> 0]

\* clean_value_for_sheets not called on its own
CleanIdle ==
  /\ value = Unset
  /\ cleaned = Unset

\* the product scraper not run: no listing page, no product file
ProductsIdle ==
  /\ listing = <<>>
  /\ output_file = [exists |-> FALSE, corrupt |-> FALSE, records |-> <<>>]
  /\ product_df = <<>>
  /\ existing_df = <<>>
  /\ new_urls = <<>>
  /\ saved = <<>>

(***************************************************************************)
(* Values                                                                  *)
(***************************************************************************)
StrV(s)   == [t |-> "str",   s |-> s,    n |-> 0]
IntV(n)   == [t |-> "int",   s |-> <<>>, n |-> n]
FloatV(h) == [t |-> "float", s |-> <<>>, n |-> h]
NaN       == [t |-> "nan",   s |-> <<>>, n |-> 0]
PyNone    == [t |-> "none",  s |-> <<>>, n |-> 0]

(***************************************************************************)
(* Python text primitives                                                  *)
(***************************************************************************)
Digits == <<"0", "1", "2", "3", "4", "5", "6", "7", "8", "9">>

IsDigit(c) == \E i \in 1..10 : Digits[i] = c

DigitVal(c) == (CHOOSE i \in 1..10 : Digits[i] = c) - 1

IsSpace(c) == c \in {" ", "\t", "\n", "\r"}

RECURSIVE LStrip(_)
LStrip(s) == IF s # <<>> /\ IsSpace(Head(s)) THEN LStrip(Tail(s)) ELSE s

RECURSIVE RStrip(_)
RStrip(s) ==
  IF s # <<>> /\ IsSpace(s[Len(s)]) THEN RStrip(SubSeq(s, 1, Len(s) - 1)) ELSE s

\* str.strip()
Strip(s) == RStrip(LStrip(s))

\* str.replace(c, '') for a one-character c
Remove(s, c) == SelectSeq(s, LAMBDA x : x # c)

AllDigits(s) == \A i \in 1..Len(s) : IsDigit(s[i])

RECURSIVE DigitsValue(_)
DigitsValue(s) ==
  IF s = <<>> THEN 0
  ELSE 10 * DigitsValue(SubSeq(s, 1, Len(s) - 1)) + DigitVal(s[Len(s)])

HasSign(s) == s # <<>> /\ Head(s) \in {"+", "-"}

Unsigned(s) == IF HasSign(s) THEN Tail(s) ELSE s

SignOf(s) == IF s # <<>> /\ Head(s) = "-" THEN -1 ELSE 1

\* int(s) succeeds: surrounding whitespace, an optional sign, decimal digits.
\* (The model's cells hold no "_" digit separators.)
IsIntLiteral(s) ==
  LET u == Unsigned(Strip(s)) IN u # <<>> /\ AllDigits(u)

IntValue(s) == SignOf(Strip(s)) * DigitsValue(Unsigned(Strip(s)))

PointAt(u) == CHOOSE i \in 1..Len(u) : u[i] = "."

IntPart(u) ==
  IF \E i \in 1..Len(u) : u[i] = "." THEN SubSeq(u, 1, PointAt(u) - 1) ELSE u

FracPart(u) ==
  IF \E i \in 1..Len(u) : u[i] = "." THEN SubSeq(u, PointAt(u) + 1, Len(u))
  ELSE <<>>

\* float(s) succeeds: surrounding whitespace, an optional sign, digits with
\* at most one decimal point and at least one digit.  (The model's cells hold
\* no exponent, "inf", "nan" or "_".)
IsFloatLiteral(s) ==
  LET u == Unsigned(Strip(s)) IN
    /\ u # <<>>
    /\ Cardinality({i \in 1..Len(u) : u[i] = "."}) <= 1
    /\ AllDigits(IntPart(u))
    /\ AllDigits(FracPart(u))
    /\ Len(IntPart(u)) + Len(FracPart(u)) >= 1

\* The value of float(s) in hundredths (cells of the model have at most two
\* decimals).
FloatValue(s) ==
  LET u == Unsigned(Strip(s))
      f == FracPart(u)
      f2 == SubSeq(f \o <<"0", "0">>, 1, 2)
  IN SignOf(Strip(s)) * (100 * DigitsValue(IntPart(u)) + DigitsValue(f2))

RECURSIVE NatToText(_)
NatToText(n) ==
  IF n < 10 THEN <<Digits[n + 1]>>
  ELSE NatToText(n \div 10) \o <<Digits[(n % 10) + 1]>>

\* str(n) / repr(n) of an integer
IntToText(n) == IF n < 0 THEN <<"-">> \o NatToText(-n) ELSE NatToText(n)

Abs(n) == IF n < 0 THEN -n ELSE n

\* repr(x) of a float given in hundredths: shortest form, at least one decimal
FloatToText(h) ==
  LET a == Abs(h)
      d1 == (a % 100) \div 10
      d2 == a % 10
  IN (IF h < 0 THEN <<"-">> ELSE <<>>) \o NatToText(a \div 100) \o <<".">>
       \o <<Digits[d1 + 1]>> \o (IF d2 = 0 THEN <<>> ELSE <<Digits[d2 + 1]>>)

(***************************************************************************)
(* Row Parser and Table Normalizer: process_sales_table                    *)
(***************************************************************************)
\* calendar.month_name: a 13-entry list whose entry 0 is ''
MonthNames ==
  << <<>>,
    <<"J", "a", "n", "u", "a", "r", "y">>,
    <<"F", "e", "b", "r", "u", "a", "r", "y">>,
    <<"M", "a", "r", "c", "h">>,
    <<"A", "p", "r", "i", "l">>,
    <<"M", "a", "y">>,
    <<"J", "u", "n", "e">>,
    <<"J", "u", "l", "y">>,
    <<"A", "u", "g", "u", "s", "t">>,
    <<"S", "e", "p", "t", "e", "m", "b", "e", "r">>,
    <<"O", "c", "t", "o", "b", "e", "r">>,
    <<"N", "o", "v", "e", "m", "b", "e", "r">>,
    <<"D", "e", "c", "e", "m", "b", "e", "r">> >>

\* calendar.month_name[m] raises IndexError: Python list indexing of a list of
\* 13 entries accepts -13..12
MonthIndexError(m) == m > 12 \/ m < -13

\* calendar.month_name[m] where it does not raise (a negative index counts
\* from the end of the list)
MonthName(m) == IF m >= 0 THEN MonthNames[m + 1] ELSE MonthNames[m + 14]

C_Month == <<"M", "o", "n", "t", "h">>
C_Year == <<"Y", "e", "a", "r">>
C_Publisher == <<"P", "u", "b", "l", "i", "s", "h", "e", "r">>
C_Title == <<"T", "i", "t", "l", "e">>
C_SKU == <<"S", "K", "U">>
C_Units_Sold == <<"U", "n", "i", "t", "s", "_", "S", "o", "l", "d">>
C_Net == <<"N", "e", "t">>
C_Royalty_Rate == <<"R", "o", "y", "a", "l", "t", "y", "_", "R", "a", "t", "e">>
C_Royalties == <<"R", "o", "y", "a", "l", "t", "i", "e", "s">>

columns_order ==
  <<C_Month, C_Year, C_Publisher, C_Title, C_SKU, C_Units_Sold, C_Net,
    C_Royalty_Rate, C_Royalties>>

\* `x or '0'`
OrZero(s) == IF s = <<>> THEN <<"0">> ELSE s

UnitsText(c) == OrZero(Strip(c))

CurrencyText(c) == OrZero(Remove(Remove(Strip(c), "$"), ","))

PercentText(c) == OrZero(Remove(Strip(c), "%"))

\* the try block building row_data raises (int() or float() fails)
RowRaises(cols) ==
  \/ ~IsIntLiteral(UnitsText(cols[4]))
  \/ ~IsFloatLiteral(CurrencyText(cols[5]))
  \/ ~IsFloatLiteral(PercentText(cols[6]))
  \/ ~IsFloatLiteral(CurrencyText(cols[7]))

\* row_data, in the insertion order of its keys
RowData(cols) ==
  << StrV(Strip(cols[1])), StrV(Strip(cols[2])), StrV(Strip(cols[3])),
     IntV(IntValue(UnitsText(cols[4]))),
     FloatV(FloatValue(CurrencyText(cols[5]))),
     FloatV(FloatValue(PercentText(cols[6]))),
     FloatV(FloatValue(CurrencyText(cols[7]))) >>

\* `if len(cols) != 7: continue`
IsStandardRow(cols) == Len(cols) = 7

\* a faulty variant: the loop stops at the first row that is not a standard row
RECURSIVE DataRows_Break(_)
DataRows_Break(rows) ==
  IF rows = <<>> THEN <<>>
  ELSE IF ~IsStandardRow(Head(rows)) THEN <<>>
  ELSE IF RowRaises(Head(rows)) THEN DataRows_Break(Tail(rows))
  ELSE <<RowData(Head(rows))>> \o DataRows_Break(Tail(rows))

\* the loop over rows[1:], given rows[1:]: data_rows
RECURSIVE DataRows(_)
DataRows(rows) ==
  IF rows = <<>> THEN <<>>
  ELSE IF ~IsStandardRow(Head(rows)) THEN DataRows(Tail(rows))
  ELSE IF RowRaises(Head(rows)) THEN DataRows(Tail(rows))
  ELSE <<RowData(Head(rows))>> \o DataRows(Tail(rows))

None == [kind |-> "none", columns |-> <<>>, rows |-> <<>>]

Raised == [kind |-> "raise", columns |-> <<>>, rows |-> <<>>]

DataFrame(cols, rows) == [kind |-> "df", columns |-> cols, rows |-> rows]

\* df['Month'] = ...; df['Year'] = year; df = df[columns_order]
Normalize(data_rows, m, y) ==
  DataFrame(columns_order,
            [i \in 1..Len(data_rows) |->
               <<StrV(MonthName(m)), IntV(y)>> \o data_rows[i]])

\* a faulty variant: no check for an empty data_rows
process_sales_table_NoEmptyCheck(rows, m, y) ==
  IF Len(rows) < 2 THEN None
  ELSE IF MonthIndexError(m) THEN Raised
  ELSE Normalize(DataRows(Tail(rows)), m, y)

\* process_sales_table(html_content, month, year); rows is soup.find_all('tr'),
\* each row the texts of its td cells
process_sales_table(rows, m, y) ==
  IF Len(rows) < 2 THEN None
  ELSE LET data_rows == DataRows(Tail(rows)) IN
    IF data_rows = <<>> THEN None
    ELSE IF MonthIndexError(m) THEN Raised
    ELSE Normalize(data_rows, m, y)

(***************************************************************************)
(* Local Snapshot Store: DataFrame.to_csv(index=False) and pandas.read_csv *)
(***************************************************************************)
\* the text to_csv writes for one value (na_rep '', floats by repr)
FieldText(v) ==
  CASE v.t = "str" -> v.s
    [] v.t = "int" -> IntToText(v.n)
    [] v.t = "float" -> FloatToText(v.n)
    [] OTHER -> <<>>

\* csv.QUOTE_MINIMAL: a field holding the delimiter, the quote character or a
\* line break is quoted
NeedsQuote(s) == \E i \in 1..Len(s) : s[i] \in {",", "\"", "\n", "\r"}

RECURSIVE DoubleQuotes(_)
DoubleQuotes(s) ==
  IF s = <<>> THEN <<>>
  ELSE (IF Head(s) = "\"" THEN <<"\"", "\"">> ELSE <<Head(s)>>)
         \o DoubleQuotes(Tail(s))

CsvField(s) ==
  IF NeedsQuote(s) THEN <<"\"">> \o DoubleQuotes(s) \o <<"\"">> ELSE s

RECURSIVE CsvJoin(_)
CsvJoin(fields) ==
  IF fields = <<>> THEN <<>>
  ELSE IF Len(fields) = 1 THEN CsvField(fields[1])
  ELSE CsvField(Head(fields)) \o <<",">> \o CsvJoin(Tail(fields))

CsvLine(fields) == CsvJoin(fields) \o <<"\n">>

RECURSIVE CsvLines(_)
CsvLines(rows) ==
  IF rows = <<>> THEN <<>>
  ELSE CsvLine([j \in 1..Len(Head(rows)) |-> FieldText(Head(rows)[j])])
         \o CsvLines(Tail(rows))

\* df.to_csv(filepath, index=False): the header line, then one line per row
to_csv(d) == CsvLine(d.columns) \o CsvLines(d.rows)

Min(S) == CHOOSE x \in S : \A y \in S : x <= y

\* the first position from i on that holds a delimiter or a line break, or
\* Len(text) + 1
FieldEnd(text, i) ==
  Min({k \in i..Len(text) : text[k] \in {",", "\n"}} \cup {Len(text) + 1})

\* the positions after the opening quote at q that close the quoted part: a
\* quote that is not the first of a doubled quote
ClosingQuotes(text, q) ==
  {j \in (q + 1)..Len(text) :
     /\ text[j] = "\""
     /\ Cardinality({k \in (q + 1)..j : text[k] = "\""}) % 2 = 1
     /\ (j = Len(text) \/ text[j + 1] # "\"")}

RECURSIVE Undouble(_)
Undouble(s) ==
  IF s = <<>> THEN <<>>
  ELSE IF Head(s) = "\"" THEN <<"\"">> \o Undouble(Tail(Tail(s)))
  ELSE <<Head(s)>> \o Undouble(Tail(s))

\* The C tokenizer of read_csv on one field starting at position i: the
\* field's text, the position of what ends it, and whether the text ends
\* inside a quoted part (err).  A quote opens a quoted part only at the start
\* of a field; what follows the closing quote up to the delimiter is kept.
ReadField(text, i) ==
  IF i <= Len(text) /\ text[i] = "\""
    THEN IF ClosingQuotes(text, i) = {}
      THEN [err |-> TRUE, fld |-> <<>>, end |-> Len(text) + 1]
      ELSE LET j == Min(ClosingQuotes(text, i))
               k == FieldEnd(text, j + 1)
           IN [err |-> FALSE,
               fld |-> Undouble(SubSeq(text, i + 1, j - 1))
                         \o SubSeq(text, j + 1, k - 1),
               end |-> k]
    ELSE LET k == FieldEnd(text, i) IN
      [err |-> FALSE, fld |-> SubSeq(text, i, k - 1), end |-> k]

\* The C tokenizer of read_csv on text from position i, the start of a
\* field: line holds the fields of the record being read, lines the records
\* read so far (blank lines skipped).  err: EOF inside a quoted field.
RECURSIVE Tokenize(_, _, _, _)
Tokenize(text, i, line, lines) ==
  IF i > Len(text) THEN
    IF line = <<>> THEN [err |-> FALSE, lines |-> lines]
    ELSE [err |-> FALSE, lines |-> Append(lines, Append(line, <<>>))]
  ELSE LET f == ReadField(text, i) IN
    IF f.err THEN [err |-> TRUE, lines |-> lines]
    ELSE IF f.end > Len(text)
      THEN [err |-> FALSE, lines |-> Append(lines, Append(line, f.fld))]
    ELSE IF text[f.end] = ","
      THEN Tokenize(text, f.end + 1, Append(line, f.fld), lines)
    ELSE IF line = <<>> /\ text[i] = "\n"
      THEN Tokenize(text, f.end + 1, <<>>, lines)
    ELSE Tokenize(text, f.end + 1, <<>>, Append(lines, Append(line, f.fld)))

\* pandas' default na_values
STR_NA_VALUES ==
  {<<>>,
   <<"#", "N", "/", "A">>,
   <<"#", "N", "/", "A", " ", "N", "/", "A">>,
   <<"#", "N", "A">>,
   <<"-", "1", ".", "#", "I", "N", "D">>,
   <<"-", "1", ".", "#", "Q", "N", "A", "N">>,
   <<"-", "N", "a", "N">>,
   <<"-", "n", "a", "n">>,
   <<"1", ".", "#", "I", "N", "D">>,
   <<"1", ".", "#", "Q", "N", "A", "N">>,
   <<"<", "N", "A", ">">>,
   <<"N", "/", "A">>,
   <<"N", "A">>,
   <<"N", "U", "L", "L">>,
   <<"N", "a", "N">>,
   <<"N", "o", "n", "e">>,
   <<"n", "/", "a">>,
   <<"n", "a", "n">>,
   <<"n", "u", "l", "l">>}

IsNA(s) == s \in STR_NA_VALUES

\* field j of a record; a record shorter than the header is filled with NA
FieldAt(rec, j) == IF j <= Len(rec) THEN rec[j] ELSE <<>>

\* the dtype read_csv infers for column j: int64 when every field is an
\* integer, float64 when every field is a number or NA, else object.  (The
\* model's texts hold no boolean literal.)
ColumnDtype(recs, j) ==
  IF recs = <<>> THEN "object"
  ELSE IF \A i \in 1..Len(recs) :
            ~IsNA(FieldAt(recs[i], j)) /\ IsIntLiteral(FieldAt(recs[i], j))
    THEN "int64"
  ELSE IF \A i \in 1..Len(recs) :
            IsNA(FieldAt(recs[i], j)) \/ IsFloatLiteral(FieldAt(recs[i], j))
    THEN "float64"
  ELSE "object"

ConvertField(s, dtype) ==
  CASE dtype = "int64" -> IntV(IntValue(s))
    [] dtype = "float64" -> IF IsNA(s) THEN NaN ELSE FloatV(FloatValue(s))
    [] OTHER -> IF IsNA(s) THEN NaN ELSE StrV(s)

\* pd.read_csv(filepath) on the file's text: Raised for EmptyDataError (no
\* record at all) and ParserError (EOF inside a quoted field, a record with
\* more fields than the header)
read_csv(text) ==
  LET tok == Tokenize(text, 1, <<>>, <<>>) IN
    IF tok.err \/ tok.lines = <<>> THEN Raised
    ELSE LET header == Head(tok.lines)
             recs == Tail(tok.lines)
         IN IF \E i \in 1..Len(recs) : Len(recs[i]) > Len(header) THEN Raised
            ELSE DataFrame(header,
                   [i \in 1..Len(recs) |->
                      [j \in 1..Len(header) |->
                         ConvertField(FieldAt(recs[i], j),
                                      ColumnDtype(recs, j))]])

Absent == [exists |-> FALSE, text |-> <<>>]

\* save_to_local_file(df, filepath): the file it leaves at filepath
save_to_local_file(d) == [exists |-> TRUE, text |-> to_csv(d)]

\* load_existing_report(filepath), given the file at filepath
load_existing_report(f) ==
  IF f.exists
    THEN LET r == read_csv(f.text) IN IF r = Raised THEN None ELSE r
    ELSE None

(***************************************************************************)
(* Inputs of the parser: cell texts and table rows                         *)
(***************************************************************************)
T_Acme == <<"A", "c", "m", "e">>
T_AcmePad == <<" ", "A", "c", "m", "e", " ">>
T_S1 == <<"S", "1">>
T_S2 == <<"S", "2">>
T_007 == <<"0", "0", "7">>
T_DE == <<"D", ",", "E">>
T_10 == <<"1", "0">>
T_3pad == <<" ", "3", " ">>
T_1000 == <<"1", ",", "0", "0", "0">>
T_Net100 == <<"$", "1", "0", "0", ".", "0", "0">>
T_Net0 == <<"$", "0", ".", "0", "0">>
T_NetBig == <<"$", "1", ",", "2", "3", "4", ".", "5", "0">>
T_na == <<"n", "/", "a">>
T_15pc == <<"1", "5", "%">>
T_0pc == <<"0", "%">>
T_125pc == <<"1", "2", ".", "5", "%">>
T_Roy15 == <<"$", "1", "5", ".", "0", "0">>
T_Roy154 == <<"$", "1", "5", "4", ".", "3", "1">>
T_Total == <<"T", "o", "t", "a", "l">>

\* a well-formed row
RowGood == <<T_Acme, <<"A">>, T_S1, T_10, T_Net100, T_15pc, T_Roy15>>

\* a well-formed row with a digit-only sku and zero amounts
RowZero == <<T_Acme, <<"B">>, T_007, <<"0">>, T_Net0, T_0pc, T_Net0>>

\* a well-formed row whose sku and numeric cells are blank or bare punctuation
RowBlank == <<T_AcmePad, <<"C">>, <<>>, <<>>, <<"$">>, <<" ">>, <<>>>>

\* a well-formed row with padding, a thousands separator and a comma in a text
RowComma == <<T_Acme, T_DE, T_S2, T_3pad, T_NetBig, T_125pc, T_Roy154>>

\* a totals row: not 7 cells
RowTotal == <<T_Total, T_NetBig>>

\* 8 cells
RowWide == RowGood \o <<<<>>>>

\* 7 cells, units that int() rejects
RowBadUnits == <<T_Acme, <<"E">>, T_S1, T_1000, T_Net100, T_15pc, T_Roy15>>

\* 7 cells, a net that float() rejects
RowBadNet == <<T_Acme, <<"F">>, T_S1, T_10, T_na, T_15pc, T_Roy15>>

SampleRows ==
  {RowGood, RowZero, RowBlank, RowComma, RowTotal, RowWide, RowBadUnits,
   RowBadNet}

\* header rows: th cells only (no td), and 7 td cells whose numeric cells are
\* blank
HeaderRows == {<<>>, <<T_Acme, <<"T">>, <<"S">>, <<>>, <<>>, <<>>, <<>>>>}

MaxDataRows == 3

RECURSIVE SeqsUpTo(_, _)
SeqsUpTo(S, n) ==
  IF n = 0 THEN {<<>>}
  ELSE LET shorter == SeqsUpTo(S, n - 1) IN
    shorter \cup {Append(q, x) : q \in {r \in shorter : Len(r) = n - 1}, x \in S}

\* the tables handed to process_sales_table: no row at all, or a header row
\* and up to MaxDataRows rows
HtmlInputs ==
  {<<>>} \cup {<<h>> \o body : h \in HeaderRows, body \in SeqsUpTo(SampleRows, MaxDataRows)}

Months == {-14, -13, -1, 0, 3, 12, 13}

Years == {2024}

(***************************************************************************)
(* The remote sheet (Sheet1 of the spreadsheet) as the Sheets API shows it *)
(*                                                                         *)
(* cells: the stored rows, each a sequence of values as written with       *)
(* valueInputOption RAW (a number or a string; '' is an empty cell), with  *)
(* no empty row at the end.  currency: the zero-based columns whose rows   *)
(* below the header carry the currency number format.                      *)
(***************************************************************************)
EmptyCell == StrV(<<>>)

EmptySheet == [cells |-> <<>>, currency |-> {}]

RECURSIVE GroupThousands(_)
GroupThousands(digits) ==
  IF Len(digits) <= 3 THEN digits
  ELSE GroupThousands(SubSeq(digits, 1, Len(digits) - 3)) \o <<",">>
         \o SubSeq(digits, Len(digits) - 2, Len(digits))

\* a number given in hundredths under the pattern "$"#,##0.00
CurrencyDisplay(h) ==
  (IF h < 0 THEN <<"-">> ELSE <<>>) \o <<"$">>
    \o GroupThousands(NatToText(Abs(h) \div 100)) \o <<".">>
    \o <<Digits[((Abs(h) % 100) \div 10) + 1], Digits[(Abs(h) % 10) + 1]>>

\* a number given in hundredths under the automatic format: no trailing zeros
GeneralDisplay(h) ==
  IF h % 100 = 0 THEN IntToText(h \div 100) ELSE FloatToText(h)

Hundredths(v) == IF v.t = "int" THEN 100 * v.n ELSE v.n

\* the formatted value values().get returns for a cell (FORMATTED_VALUE is
\* the default render option): always text
Display(v, asCurrency) ==
  IF v.t \in {"int", "float"}
    THEN IF asCurrency THEN CurrencyDisplay(Hundredths(v))
         ELSE GeneralDisplay(Hundredths(v))
    ELSE v.s

RECURSIVE TrimTrailing(_, _)
TrimTrailing(q, empty) ==
  IF q # <<>> /\ q[Len(q)] = empty
    THEN TrimTrailing(SubSeq(q, 1, Len(q) - 1), empty)
    ELSE q

\* spreadsheets().values().get(range='Sheet1!A:I').execute()['values'] (the
\* key is absent when this is empty): the rows up to the last non-empty one,
\* each up to its last non-empty cell, columns A..I
SheetValues(sh) ==
  [i \in 1..Len(sh.cells) |->
     TrimTrailing(
       [j \in 1..(IF Len(sh.cells[i]) < 9 THEN Len(sh.cells[i]) ELSE 9) |->
          StrV(Display(sh.cells[i][j], i > 1 /\ (j - 1) \in sh.currency))],
       EmptyCell)]

Max2(a, b) == IF a > b THEN a ELSE b

\* spreadsheets().values().update(range='Sheet1!A<start_row>', RAW, values):
\* the rows of values overwrite the cells from column A of start_row on
ValuesUpdate(sh, start_row, values) ==
  LET n == Max2(Len(sh.cells), start_row + Len(values) - 1)
      old(i) == IF i <= Len(sh.cells) THEN sh.cells[i] ELSE <<>>
      new(i) ==
        IF i < start_row \/ i >= start_row + Len(values) THEN old(i)
        ELSE LET w == values[i - start_row + 1] IN
          TrimTrailing(
            [j \in 1..Max2(Len(old(i)), Len(w)) |->
               IF j <= Len(w) THEN w[j] ELSE old(i)[j]],
            EmptyCell)
  IN [sh EXCEPT !.cells = TrimTrailing([i \in 1..n |-> new(i)], <<>>)]

\* spreadsheets().batchUpdate(requests): each repeatCell request sets the
\* number format of its column from startRowIndex 1 on
BatchUpdate(sh, requests) ==
  [sh EXCEPT !.currency =
     @ \cup {requests[k].startColumnIndex : k \in 1..Len(requests)}]

(***************************************************************************)
(* Duplicate Guard and Sheet Synchronizer: update_google_sheet             *)
(***************************************************************************)
\* str(v)
PyStr(v) ==
  CASE v.t = "str" -> v.s
    [] v.t = "int" -> IntToText(v.n)
    [] v.t = "float" -> FloatToText(v.n)
    [] v.t = "none" -> <<"N", "o", "n", "e">>
    [] OTHER -> <<"n", "a", "n">>

\* a == b
PyEq(a, b) ==
  CASE a.t = "str" /\ b.t = "str" -> a.s = b.s
    [] a.t \in {"int", "float"} /\ b.t \in {"int", "float"} ->
         Hundredths(a) = Hundredths(b)
    [] OTHER -> FALSE

\* a faulty variant: str(value) without strip()
clean_value_for_sheets_NoStrip(v) ==
  IF v.t \in {"nan", "none"} THEN StrV(<<>>)
  ELSE IF v.t \in {"int", "float"} THEN v
  ELSE StrV(v.s)

\* clean_value_for_sheets(value); pd.isna holds of NaN and of None
clean_value_for_sheets(v) ==
  IF v.t \in {"nan", "none"} THEN StrV(<<>>)
  ELSE IF v.t \in {"int", "float"} THEN v
  ELSE StrV(Strip(v.s))

\* [[clean_value_for_sheets(value) for value in row] for row in df.values.tolist()]
CleanRows(d) ==
  [i \in 1..Len(d.rows) |->
     [j \in 1..Len(d.rows[i]) |-> clean_value_for_sheets(d.rows[i][j])]]

\* a faulty variant: a missing name falls back to the first column
IndexOf_Default(names, name) ==
  IF \E i \in 1..Len(names) : names[i] = name
    THEN Min({i \in 1..Len(names) : names[i] = name}) - 1
    ELSE 0

\* list.index(name) / columns.get_loc(name), zero-based; -1 where it raises
IndexOf(names, name) ==
  IF \E i \in 1..Len(names) : names[i] = name
    THEN Min({i \in 1..Len(names) : names[i] = name}) - 1
    ELSE -1

\* a faulty variant: the year compared without str()
RowMatches_NoStr(row, month_idx, year_idx, new_month, new_year) ==
  /\ Len(row) > Max2(month_idx, year_idx)
  /\ PyEq(row[month_idx + 1], new_month)
  /\ PyEq(row[year_idx + 1], new_year)

\* the condition of the duplicate loop for one row of existing_data[1:]
RowMatches(row, month_idx, year_idx, new_month, new_year) ==
  /\ Len(row) > Max2(month_idx, year_idx)
  /\ PyEq(row[month_idx + 1], new_month)
  /\ PyStr(row[year_idx + 1]) = PyStr(new_year)

\* a faulty variant: only the last data row is looked at
DuplicateFound_LastOnly(rows, month_idx, year_idx, new_month, new_year) ==
  /\ rows # <<>>
  /\ RowMatches(rows[Len(rows)], month_idx, year_idx, new_month, new_year)

\* a faulty variant: only the first data row is looked at
DuplicateFound_FirstOnly(rows, month_idx, year_idx, new_month, new_year) ==
  rows # <<>> /\ RowMatches(Head(rows), month_idx, year_idx, new_month, new_year)

\* duplicate_found after the loop over existing_data[1:]
RECURSIVE DuplicateFound(_, _, _, _, _)
DuplicateFound(rows, month_idx, year_idx, new_month, new_year) ==
  IF rows = <<>> THEN FALSE
  ELSE IF RowMatches(Head(rows), month_idx, year_idx, new_month, new_year)
    THEN TRUE
  ELSE DuplicateFound(Tail(rows), month_idx, year_idx, new_month, new_year)

\* a faulty variant: the write starts on the last existing row
NextRow_Last(existing_data) == Len(existing_data)

\* start_row = len(existing_data) + 1
NextRow(existing_data) == Len(existing_data) + 1

\* the repeatCell requests for the Net and Royalties columns
FormatRequests(d) ==
  LET net_idx == IndexOf(d.columns, C_Net)
      royalties_idx == IndexOf(d.columns, C_Royalties)
  IN [k \in 1..2 |->
        LET column == IF k = 1 THEN net_idx ELSE royalties_idx IN
          [sheetId |-> 0, startColumnIndex |-> column,
           endColumnIndex |-> column + 1, startRowIndex |-> 1,
           type |-> "CURRENCY", pattern |-> "\"$\"#,##0.00",
           fields |-> "userEnteredFormat.numberFormat"]]

\* The outcome of one call: ret is "True", "False" or "raise"; reads, writes
\* and formats are the remote calls made, in order (a write is its start row
\* and payload, a format its requests); sheet is the sheet afterwards.
Outcome(ret, sh, reads, writes, formats) ==
  [ret |-> ret, sheet |-> sh, reads |-> reads, writes |-> writes,
   formats |-> formats]

\* the part of update_google_sheet after the values update has succeeded:
\* the inner try block that applies the currency format
ApplyFormatting(d, sh, fail, writes) ==
  IF IndexOf(d.columns, C_Net) < 0 \/ IndexOf(d.columns, C_Royalties) < 0
    THEN Outcome("True", sh, 1, writes, <<>>)
  ELSE IF fail = "format"
    THEN Outcome("True", sh, 1, writes, <<FormatRequests(d)>>)
  ELSE Outcome("True", BatchUpdate(sh, FormatRequests(d)), 1, writes,
               <<FormatRequests(d)>>)

\* a faulty variant: a failed values update is only warned about
WriteValues_Swallow(d, sh, fail, start_row, values) ==
  IF fail = "write"
    THEN Outcome("True", sh, 1, <<[start_row |-> start_row, values |-> values]>>, <<>>)
    ELSE ApplyFormatting(d, ValuesUpdate(sh, start_row, values), fail,
                         <<[start_row |-> start_row, values |-> values]>>)

\* a faulty variant: the currency format is applied though the values update
\* failed
WriteValues_FormatAnyway(d, sh, fail, start_row, values) ==
  IF fail = "write"
    THEN Outcome("raise", BatchUpdate(sh, FormatRequests(d)), 1,
                 <<[start_row |-> start_row, values |-> values]>>,
                 <<FormatRequests(d)>>)
    ELSE ApplyFormatting(d, ValuesUpdate(sh, start_row, values), fail,
                         <<[start_row |-> start_row, values |-> values]>>)

\* the values update and what follows it
WriteValues(d, sh, fail, start_row, values) ==
  IF fail = "write"
    THEN Outcome("raise", sh, 1, <<[start_row |-> start_row, values |-> values]>>, <<>>)
    ELSE ApplyFormatting(d, ValuesUpdate(sh, start_row, values), fail,
                         <<[start_row |-> start_row, values |-> values]>>)

\* update_google_sheet(df, spreadsheet_id, credentials_path) on sheet sh;
\* fail names the remote call that fails with an HttpError, if any
update_google_sheet(d, sh, fail) ==
  IF d.rows = <<>> \/ IndexOf(d.columns, C_Month) < 0 \/ IndexOf(d.columns, C_Year) < 0
    THEN Outcome("raise", sh, 0, <<>>, <<>>)
  ELSE IF fail = "read" THEN Outcome("raise", sh, 1, <<>>, <<>>)
  ELSE
    LET new_month == d.rows[1][IndexOf(d.columns, C_Month) + 1]
        new_year == d.rows[1][IndexOf(d.columns, C_Year) + 1]
        existing_data == SheetValues(sh)
    IN IF existing_data = <<>>
         THEN WriteValues(d, sh, fail, 1,
                <<[j \in 1..Len(d.columns) |-> StrV(d.columns[j])]>> \o CleanRows(d))
       ELSE
         LET headers == [j \in 1..Len(existing_data[1]) |-> existing_data[1][j].s]
             month_idx == IndexOf(headers, C_Month)
             year_idx == IndexOf(headers, C_Year)
         IN IF month_idx < 0 \/ year_idx < 0
              THEN Outcome("raise", sh, 1, <<>>, <<>>)
            ELSE IF DuplicateFound(Tail(existing_data), month_idx, year_idx,
                                   new_month, new_year)
              THEN Outcome("False", sh, 1, <<>>, <<>>)
            ELSE WriteValues(d, sh, fail, NextRow(existing_data), CleanRows(d))

(***************************************************************************)
(* Inputs of the synchronizer: tables and sheets found at the remote end   *)
(***************************************************************************)
\* the table parsed from a header row and the given rows
Tab(rows, m, y) == process_sales_table(<<<<>>>> \o rows, m, y)

\* tables as the main flow hands them over: freshly parsed, or loaded back
\* from the snapshot file
SyncTables ==
  {Tab(<<RowGood>>, 3, 2024),
   Tab(<<RowZero, RowBlank>>, 3, 2024),
   Tab(<<RowComma>>, 4, 2024),
   Tab(<<RowGood>>, 3, 2023),
   load_existing_report(save_to_local_file(Tab(<<RowBlank>>, 4, 2024)))}

HeaderCells == [j \in 1..9 |-> StrV(columns_order[j])]

\* a sheet an earlier run wrote February 2024 to
SheetFeb == update_google_sheet(Tab(<<RowGood>>, 2, 2024), EmptySheet, "none").sheet

\* a sheet filled in by hand: March 2024 with the year as text, and no
\* currency format
SheetMarText ==
  [cells |-> <<HeaderCells,
               <<StrV(MonthNames[4]), StrV(<<"2", "0", "2", "4">>), StrV(T_Acme)>>>>,
   currency |-> {}]

\* the header alone
SheetHeader == [cells |-> <<HeaderCells>>, currency |-> {}]

\* Year in column A and Month in column B
SheetSwapped ==
  [cells |-> <<<<StrV(C_Year), StrV(C_Month), StrV(C_Publisher)>>,
               <<IntV(2024), StrV(MonthNames[2]), StrV(T_Acme)>>>>,
   currency |-> {}]

\* no Month column
SheetNoMonth ==
  [cells |-> <<<<StrV(C_Title), StrV(C_Year)>>,
               <<StrV(MonthNames[4]), IntV(2024)>>>>,
   currency |-> {}]

\* no Year column
SheetNoYear ==
  [cells |-> <<<<StrV(C_Month), StrV(C_Publisher)>>>>, currency |-> {}]

\* an empty first row above the header
SheetBlankFirst == [cells |-> <<<<>>, HeaderCells>>, currency |-> {}]

\* an empty row and a row that ends before the Year column
SheetShortRow ==
  [cells |-> <<HeaderCells, <<>>, <<StrV(MonthNames[4])>>>>, currency |-> {}]

InitialSheets ==
  {EmptySheet, SheetHeader, SheetFeb, SheetMarText, SheetSwapped,
   SheetNoMonth, SheetNoYear, SheetBlankFirst, SheetShortRow}

\* the remote call that fails with an HttpError, if any
Failures == {"none", "read", "write", "format"}

MaxCalls == 3

NoCall ==
  [df |-> None, before |-> EmptySheet, fail |-> "none",
   out |-> Outcome("none", EmptySheet, 0, <<>>, <<>>)]

(***************************************************************************)
(* Spec: update_google_sheet called again and again on the remote sheet    *)
(***************************************************************************)
ParseIdle ==
  /\ html = <<>>
  /\ month = 1
  /\ year = 2024
  /\ df = None
  /\ file = Absent
  /\ loaded = None
  /\ stage = "input"
  /\ steps = <<>>

Init ==
  /\ sheet \in InitialSheets
  /\ last = NoCall
  /\ prev = NoCall
  /\ ncalls = 0
  /\ ParseIdle
  /\ RunsIdle
  /\ CleanIdle
  /\ ProductsIdle
  /\ calls = <<>>

UpdateGoogleSheet ==
  /\ ncalls < MaxCalls
  /\ \E d \in SyncTables, fail \in Failures :
       LET out == update_google_sheet(d, sheet, fail) IN
         /\ sheet' = out.sheet
         /\ last' = [df |-> d, before |-> sheet, fail |-> fail, out |-> out]
  /\ prev' = last
  /\ ncalls' = ncalls + 1
  /\ UNCHANGED pvars
  /\ UNCHANGED steps
  /\ UNCHANGED cvars
  /\ UNCHANGED kvars
  /\ UNCHANGED gvars
  /\ UNCHANGED hvars

Next == UpdateGoogleSheet

Spec == Init /\ [][Next]_vars

(***************************************************************************)
(* SpecParse: process_sales_table on a drawn input, then the table saved   *)
(* and loaded back.                                                        *)
(***************************************************************************)
SyncIdle ==
  /\ sheet = EmptySheet
  /\ last = NoCall
  /\ prev = NoCall
  /\ ncalls = 0
  /\ steps = <<>>

InitParse ==
  /\ html \in HtmlInputs
  /\ month \in Months
  /\ year \in Years
  /\ df = None
  /\ file = Absent
  /\ loaded = None
  /\ stage = "input"
  /\ SyncIdle
  /\ RunsIdle
  /\ CleanIdle
  /\ ProductsIdle
  /\ calls = <<>>

ProcessSalesTable ==
  /\ stage = "input"
  /\ df' = process_sales_table(html, month, year)
  /\ stage' = "parsed"
  /\ UNCHANGED <<html, month, year, file, loaded>>
  /\ UNCHANGED svars
  /\ UNCHANGED steps
  /\ UNCHANGED cvars
  /\ UNCHANGED kvars
  /\ UNCHANGED gvars
  /\ UNCHANGED hvars

SaveToLocalFile ==
  /\ stage = "parsed"
  /\ df.kind = "df"
  /\ file' = save_to_local_file(df)
  /\ stage' = "saved"
  /\ UNCHANGED <<html, month, year, df, loaded>>
  /\ UNCHANGED svars
  /\ UNCHANGED steps
  /\ UNCHANGED cvars
  /\ UNCHANGED kvars
  /\ UNCHANGED gvars
  /\ UNCHANGED hvars

LoadExistingReport ==
  /\ stage = "saved"
  /\ loaded' = load_existing_report(file)
  /\ stage' = "loaded"
  /\ UNCHANGED <<html, month, year, df, file>>
  /\ UNCHANGED svars
  /\ UNCHANGED steps
  /\ UNCHANGED cvars
  /\ UNCHANGED kvars
  /\ UNCHANGED gvars
  /\ UNCHANGED hvars

NextParse == ProcessSalesTable \/ SaveToLocalFile \/ LoadExistingReport

SpecParse == InitParse /\ [][NextParse]_vars

(***************************************************************************)
(* SpecLoad: load_existing_report on the file found at the report path     *)
(***************************************************************************)
\* tables an earlier run saved
SavedTables ==
  {Tab(<<RowGood>>, 3, 2024),
   Tab(<<RowComma>>, 4, 2024),
   Tab(<<RowZero, RowBlank>>, 3, 2024)}

\* the file at filepath when os.path.exists(filepath) holds, cut off after
\* its first k characters (k = Len: the whole file; k = 0: an empty file)
CutFile(text, k) == [exists |-> TRUE, text |-> SubSeq(text, 1, k)]

\* df stands for the table the earlier run saved (None: it saved none)
InitLoad ==
  /\ \/ df = None /\ file = Absent
     \/ \E t \in SavedTables :
          /\ df = t
          /\ \E k \in 0..Len(to_csv(t)) : file = CutFile(to_csv(t), k)
  /\ html = <<>>
  /\ month = 1
  /\ year = 2024
  /\ loaded = None
  /\ stage = "saved"
  /\ SyncIdle
  /\ RunsIdle
  /\ CleanIdle
  /\ ProductsIdle
  /\ calls = <<>>

NextLoad == LoadExistingReport

SpecLoad == InitLoad /\ [][NextLoad]_vars

(***************************************************************************)
(* SpecMain: one run of the script (the __main__ block)                    *)
(***************************************************************************)
\* the snapshot file found at the report path when the run starts: none, or
\* one an earlier run of the month saved
InitialFiles ==
  {Absent,
   save_to_local_file(Tab(<<RowGood>>, 3, 2024)),
   save_to_local_file(Tab(<<RowZero, RowBlank>>, 3, 2024))}

\* the sheet found at the remote end when the run starts
MainSheets == {EmptySheet, SheetFeb, SheetNoYear}

\* month and year of get_last_month_dates(): the calendar month before today
LastMonths == {3, 12}

InitMain ==
  /\ file \in InitialFiles
  /\ sheet \in MainSheets
  /\ stage = "start"
  /\ steps = <<>>
  /\ html = <<>>
  /\ month = 1
  /\ year = 2024
  /\ df = None
  /\ loaded = None
  /\ last = NoCall
  /\ prev = NoCall
  /\ ncalls = 0
  /\ RunsIdle
  /\ CleanIdle
  /\ ProductsIdle
  /\ calls = <<>>

\* df = load_existing_report(report_filepath)
MainLoad ==
  /\ stage = "start"
  /\ loaded' = load_existing_report(file)
  /\ df' = loaded'
  /\ stage' = IF loaded' # None THEN "sync" ELSE "fetch"
  /\ steps' = Append(steps, "load")
  /\ UNCHANGED <<html, month, year, file, sheet, last, prev, ncalls>>
  /\ UNCHANGED cvars
  /\ UNCHANGED kvars
  /\ UNCHANGED gvars
  /\ UNCHANGED hvars

\* df = fetch_dmsguild_royalties(username, password): the browser session
\* yields the table's rows and process_sales_table parses them
MainFetch ==
  /\ stage = "fetch"
  /\ \E h \in HtmlInputs, m \in LastMonths, y \in Years :
       /\ html' = h
       /\ month' = m
       /\ year' = y
       /\ df' = process_sales_table(h, m, y)
  /\ stage' = IF df' = Raised THEN "crashed" ELSE IF df' = None THEN "sync" ELSE "save"
  /\ steps' = Append(steps, "fetch")
  /\ UNCHANGED <<file, loaded, sheet, last, prev, ncalls>>
  /\ UNCHANGED cvars
  /\ UNCHANGED kvars
  /\ UNCHANGED gvars
  /\ UNCHANGED hvars

\* fetch_dmsguild_royalties raises (a browser error): nothing catches it
MainFetchRaises ==
  /\ stage = "fetch"
  /\ stage' = "crashed"
  /\ steps' = Append(steps, "fetch")
  /\ UNCHANGED <<html, month, year, df, file, loaded, sheet, last, prev, ncalls>>
  /\ UNCHANGED cvars
  /\ UNCHANGED kvars
  /\ UNCHANGED gvars
  /\ UNCHANGED hvars

\* if df is not None: save_to_local_file(df, report_filepath)
MainSave ==
  /\ stage = "save"
  /\ file' = save_to_local_file(df)
  /\ stage' = "sync"
  /\ steps' = Append(steps, "save")
  /\ UNCHANGED <<html, month, year, df, loaded, sheet, last, prev, ncalls>>
  /\ UNCHANGED cvars
  /\ UNCHANGED kvars
  /\ UNCHANGED gvars
  /\ UNCHANGED hvars

\* if df is not None: update_google_sheet(df, ...), any exception printed
MainSync ==
  /\ stage = "sync"
  /\ df # None
  /\ \E fail \in Failures :
       LET out == update_google_sheet(df, sheet, fail) IN
         /\ sheet' = out.sheet
         /\ last' = [df |-> df, before |-> sheet, fail |-> fail, out |-> out]
  /\ prev' = last
  /\ ncalls' = ncalls + 1
  /\ stage' = "done"
  /\ steps' = Append(steps, "sync")
  /\ UNCHANGED <<html, month, year, df, file, loaded>>
  /\ UNCHANGED cvars
  /\ UNCHANGED kvars
  /\ UNCHANGED gvars
  /\ UNCHANGED hvars

\* df is None: the run ends
MainSkip ==
  /\ stage = "sync"
  /\ df = None
  /\ stage' = "done"
  /\ UNCHANGED <<html, month, year, df, file, loaded, sheet, last, prev, ncalls, steps>>
  /\ UNCHANGED cvars
  /\ UNCHANGED kvars
  /\ UNCHANGED gvars
  /\ UNCHANGED hvars

NextMain ==
  MainLoad \/ MainFetch \/ MainFetchRaises \/ MainSave \/ MainSync \/ MainSkip

SpecMain == InitMain /\ [][NextMain]_vars

(***************************************************************************)
(* SpecRuns: the script run again and again over the months, with the      *)
(* reports directory and the wall clock                                    *)
(***************************************************************************)
T_ReportsDir == <<"r", "e", "p", "o", "r", "t", "s">>

T_ReportPrefix ==
  <<"d", "m", "s", "g", "u", "i", "l", "d", "_", "r", "e", "p", "o", "r", "t", "_">>

T_CsvSuffix == <<".", "c", "s", "v">>

\* left-pads the digits of n with zeros to the given width
RECURSIVE ZeroPad(_, _)
ZeroPad(digits, width) ==
  IF Len(digits) >= width THEN digits ELSE ZeroPad(<<"0">> \o digits, width)

\* datetime.strftime("%Y%m")
StrfYm(clock) ==
  ZeroPad(NatToText(clock.year), 4) \o ZeroPad(NatToText(clock.month), 2)

\* the path get_report_filepath() returns when the clock reads clock:
\* os.path.join("reports", f"dmsguild_report_{timestamp}.csv")
get_report_filepath(clock) ==
  T_ReportsDir \o <<"/">> \o T_ReportPrefix \o StrfYm(clock) \o T_CsvSuffix

\* a faulty variant: the path named after the period of the table in hand
PathOfPeriod(d) ==
  IF d.kind = "df" /\ d.rows # <<>>
    THEN LET m == CHOOSE i \in 1..12 : MonthNames[i + 1] = d.rows[1][1].s IN
      get_report_filepath([year |-> d.rows[1][2].n, month |-> m])
    ELSE get_report_filepath([year |-> 0, month |-> 0])

\* get_last_month_dates(): the year and month of the day before the first of
\* this month
LastMonth(clock) ==
  IF clock.month = 1 THEN [year |-> clock.year - 1, month |-> 12]
  ELSE [year |-> clock.year, month |-> clock.month - 1]

NextMonth(clock) ==
  IF clock.month = 12 THEN [year |-> clock.year + 1, month |-> 1]
  ELSE [year |-> clock.year, month |-> clock.month + 1]

\* the file at a path of the directory
FileAt(dir, path) ==
  IF path \in DOMAIN dir.files
    THEN [exists |-> TRUE, text |-> dir.files[path]]
    ELSE Absent

\* the directory after a file is written at path
WriteFile(dir, path, f) ==
  [exists |-> TRUE, files |-> (path :> f.text) @@ dir.files]

NoReportsDir == [exists |-> FALSE, files |-> <<>>]

EmptyReportsDir == [exists |-> TRUE, files |-> <<>>]

\* the reports directory found by the first run, the clock reading clock:
\* none, an empty one, a snapshot of this run-month holding last month's
\* period or an older period, a snapshot of last run-month only, an empty
\* file and a header-only file at this run-month's path
InitialReports(clock) ==
  LET here == get_report_filepath(clock)
      lm == LastMonth(clock)
      put(path, text) == [exists |-> TRUE, files |-> (path :> text)]
  IN {NoReportsDir,
      EmptyReportsDir,
      put(here, to_csv(Tab(<<RowGood>>, lm.month, lm.year))),
      put(here, to_csv(Tab(<<RowZero, RowBlank>>, 1, 2024))),
      put(get_report_filepath(lm), to_csv(Tab(<<RowGood>>, 1, 2024))),
      put(here, <<>>),
      put(here, CsvLine(columns_order))}

\* the clock when the first run starts
InitialClocks == {[year |-> 2024, month |-> 4], [year |-> 2024, month |-> 12]}

\* the rows of the results table a fetch finds
FetchedHtml == {<<>>, <<<<>>, RowTotal>>, <<<<>>, RowGood>>, <<<<>>, RowComma, RowBadNet>>}

MaxRuns == 2

InitRuns ==
  /\ now \in InitialClocks
  /\ reports \in InitialReports(now)
  /\ report_filepath = <<>>
  /\ nruns = 1
  /\ sheet \in {EmptySheet, SheetFeb}
  /\ stage = "start"
  /\ steps = <<>>
  /\ html = <<>>
  /\ month = 1
  /\ year = 2024
  /\ df = None
  /\ file = Absent
  /\ loaded = None
  /\ last = NoCall
  /\ prev = NoCall
  /\ ncalls = 0
  /\ CleanIdle
  /\ ProductsIdle
  /\ calls = <<>>

\* report_filepath = get_report_filepath(); df = load_existing_report(report_filepath)
RunLoad ==
  /\ stage = "start"
  /\ report_filepath' = get_report_filepath(now)
  /\ reports' = [reports EXCEPT !.exists = TRUE]
  /\ loaded' = load_existing_report(FileAt(reports, report_filepath'))
  /\ df' = loaded'
  /\ stage' = IF loaded' # None THEN "sync" ELSE "fetch"
  /\ steps' = Append(steps, "load")
  /\ UNCHANGED <<html, month, year, file, sheet, last, prev, ncalls, now, nruns>>
  /\ UNCHANGED kvars
  /\ UNCHANGED gvars
  /\ UNCHANGED hvars

\* df = fetch_dmsguild_royalties(username, password): the period is last
\* month's by the clock
RunFetch ==
  /\ stage = "fetch"
  /\ \E h \in FetchedHtml :
       /\ html' = h
       /\ month' = LastMonth(now).month
       /\ year' = LastMonth(now).year
       /\ df' = process_sales_table(h, LastMonth(now).month, LastMonth(now).year)
  /\ stage' = IF df' = None THEN "sync" ELSE "save"
  /\ steps' = Append(steps, "fetch")
  /\ UNCHANGED <<file, loaded, sheet, last, prev, ncalls>>
  /\ UNCHANGED cvars
  /\ UNCHANGED kvars
  /\ UNCHANGED gvars
  /\ UNCHANGED hvars

\* fetch_dmsguild_royalties raises (a browser error): the run ends there
RunFetchRaises ==
  /\ stage = "fetch"
  /\ stage' = "crashed"
  /\ steps' = Append(steps, "fetch")
  /\ UNCHANGED <<html, month, year, df, file, loaded, sheet, last, prev, ncalls>>
  /\ UNCHANGED cvars
  /\ UNCHANGED kvars
  /\ UNCHANGED gvars
  /\ UNCHANGED hvars

\* a faulty variant: the snapshot saved under the table's period
RunSave_ByPeriod ==
  /\ stage = "save"
  /\ reports' = WriteFile(reports, PathOfPeriod(df), save_to_local_file(df))
  /\ stage' = "sync"
  /\ steps' = Append(steps, "save")
  /\ UNCHANGED <<html, month, year, df, file, loaded, sheet, last, prev, ncalls>>
  /\ UNCHANGED <<now, report_filepath, nruns>>
  /\ UNCHANGED kvars
  /\ UNCHANGED gvars
  /\ UNCHANGED hvars

\* if df is not None: save_to_local_file(df, report_filepath)
RunSave ==
  /\ stage = "save"
  /\ reports' = WriteFile(reports, report_filepath, save_to_local_file(df))
  /\ stage' = "sync"
  /\ steps' = Append(steps, "save")
  /\ UNCHANGED <<html, month, year, df, file, loaded, sheet, last, prev, ncalls>>
  /\ UNCHANGED <<now, report_filepath, nruns>>
  /\ UNCHANGED kvars
  /\ UNCHANGED gvars
  /\ UNCHANGED hvars

\* if df is not None: update_google_sheet(df, ...), any exception printed
RunSync ==
  /\ stage = "sync"
  /\ df # None
  /\ \E fail \in Failures :
       LET out == update_google_sheet(df, sheet, fail) IN
         /\ sheet' = out.sheet
         /\ last' = [df |-> df, before |-> sheet, fail |-> fail, out |-> out]
  /\ prev' = last
  /\ ncalls' = ncalls + 1
  /\ stage' = "done"
  /\ steps' = Append(steps, "sync")
  /\ UNCHANGED <<html, month, year, df, file, loaded>>
  /\ UNCHANGED cvars
  /\ UNCHANGED kvars
  /\ UNCHANGED gvars
  /\ UNCHANGED hvars

\* df is None: the run ends
RunSkip ==
  /\ stage = "sync"
  /\ df = None
  /\ stage' = "done"
  /\ UNCHANGED <<html, month, year, df, file, loaded, sheet, last, prev, ncalls, steps>>
  /\ UNCHANGED cvars
  /\ UNCHANGED kvars
  /\ UNCHANGED gvars
  /\ UNCHANGED hvars

\* the script is started again, the same month or the next
RunAgain ==
  /\ stage \in {"done", "crashed"}
  /\ nruns < MaxRuns
  /\ nruns' = nruns + 1
  /\ now' \in {now, NextMonth(now)}
  /\ stage' = "start"
  /\ steps' = <<>>
  /\ html' = <<>>
  /\ df' = None
  /\ loaded' = None
  /\ report_filepath' = <<>>
  /\ UNCHANGED <<month, year, file, sheet, last, prev, ncalls, reports>>
  /\ UNCHANGED kvars
  /\ UNCHANGED gvars
  /\ UNCHANGED hvars

NextRuns ==
  RunLoad \/ RunFetch \/ RunFetchRaises \/ RunSave \/ RunSync \/ RunSkip \/ RunAgain

SpecRuns == InitRuns /\ [][NextRuns]_vars

(***************************************************************************)
(* SpecClean: clean_value_for_sheets on a drawn value, and on its result   *)
(***************************************************************************)
\* texts of cells: the parser's sample texts and texts with inner and outer
\* whitespace
CellTexts ==
  {T_Acme, T_AcmePad, T_S1, T_S2, T_007, T_DE, T_10, T_3pad, T_1000, T_Net100,
   T_Net0, T_NetBig, T_na, T_15pc, T_0pc, T_125pc, T_Roy15, T_Roy154, T_Total,
   <<>>, <<" ">>, <<"\t", "\n">>, <<"a", " ", "b">>, <<"n", "a", "n">>,
   <<"N", "o", "n", "e">>}

\* a text with whitespace put around it
Padded(s) == <<" ", "\t">> \o s \o <<"\r", "\n">>

\* the values of df.values.tolist(): str, int, float, NaN, None
CellValues ==
  {StrV(s) : s \in CellTexts} \cup {StrV(Padded(s)) : s \in CellTexts}
    \cup {IntV(n) : n \in {-3, 0, 7, 2024}}
    \cup {FloatV(h) : h \in {-150, 0, 1500, 123450}}
    \cup {NaN, PyNone}

InitClean ==
  /\ value \in CellValues
  /\ cleaned = Unset
  /\ stage = "value"
  /\ html = <<>>
  /\ month = 1
  /\ year = 2024
  /\ df = None
  /\ file = Absent
  /\ loaded = None
  /\ SyncIdle
  /\ RunsIdle
  /\ ProductsIdle
  /\ calls = <<>>

\* cleaned = clean_value_for_sheets(value)
Clean ==
  /\ stage = "value"
  /\ cleaned' = clean_value_for_sheets(value)
  /\ stage' = "cleaned"
  /\ UNCHANGED <<html, month, year, df, file, loaded, value>>
  /\ UNCHANGED svars
  /\ UNCHANGED steps
  /\ UNCHANGED cvars
  /\ UNCHANGED gvars
  /\ UNCHANGED hvars

\* the result cleaned again: clean_value_for_sheets(cleaned)
CleanAgain ==
  /\ stage = "cleaned"
  /\ value' = cleaned
  /\ cleaned' = clean_value_for_sheets(cleaned)
  /\ stage' = "again"
  /\ UNCHANGED <<html, month, year, df, file, loaded>>
  /\ UNCHANGED svars
  /\ UNCHANGED steps
  /\ UNCHANGED cvars
  /\ UNCHANGED gvars
  /\ UNCHANGED hvars

NextClean == Clean \/ CleanAgain

SpecClean == InitClean /\ [][NextClean]_vars

(***************************************************************************)
(* SpecAppend: update_google_sheet called again and again on a sheet that  *)
(* starts empty, every remote call succeeding                              *)
(***************************************************************************)
\* non-empty tables of several periods: two of March 2024 with different
\* rows, two of April 2024, one of March 2023, one of December 2024
PeriodTables == SyncTables \cup {Tab(<<RowZero>>, 12, 2024)}

InitAppend ==
  /\ sheet = EmptySheet
  /\ last = NoCall
  /\ prev = NoCall
  /\ ncalls = 0
  /\ calls = <<>>
  /\ ParseIdle
  /\ RunsIdle
  /\ CleanIdle
  /\ ProductsIdle

AppendCall ==
  /\ ncalls < MaxCalls
  /\ \E d \in PeriodTables :
       LET out == update_google_sheet(d, sheet, "none") IN
         /\ sheet' = out.sheet
         /\ last' = [df |-> d, before |-> sheet, fail |-> "none", out |-> out]
         /\ calls' = Append(calls, d)
  /\ prev' = last
  /\ ncalls' = ncalls + 1
  /\ UNCHANGED pvars
  /\ UNCHANGED steps
  /\ UNCHANGED cvars
  /\ UNCHANGED kvars
  /\ UNCHANGED gvars

NextAppend == AppendCall

SpecAppend == InitAppend /\ [][NextAppend]_vars

(***************************************************************************)
(* SpecProducts: one run of fetch_product_data (src/get_product_info.py)   *)
(*                                                                         *)
(* A product record is [url |-> u]; the URLs are numbered in their sort    *)
(* order.  A listing page is the set of the hrefs of its product links.    *)
(* stage: "start", "page" (a listing page is shown, navigate_products is   *)
(* about to run), "loop" (in the loop over new_urls, the listing page      *)
(* still shown), "visited" (in the loop, a product page shown), "done",    *)
(* "failed" (the run ended in an except clause of fetch_product_data).     *)
(***************************************************************************)
MaxUrls == 3

MaxPages == 2

Urls == 1..MaxUrls

RECURSIVE SortedSeq(_)
\* sorted(list(set(...)))
SortedSeq(S) ==
  IF S = {} THEN <<>> ELSE <<Min(S)>> \o SortedSeq(S \ {Min(S)})

\* the records of a product file that holds the given URLs
ProductRecords(S) == [i \in 1..Cardinality(S) |-> [url |-> SortedSeq(S)[i]]]

NoProductFile == [exists |-> FALSE, corrupt |-> FALSE, records |-> <<>>]

\* the product file when the run starts: none, one read_csv fails on, or one
\* an earlier run saved
InitialProductFiles ==
  {NoProductFile, [exists |-> TRUE, corrupt |-> TRUE, records |-> <<>>]}
    \cup {[exists |-> TRUE, corrupt |-> FALSE, records |-> ProductRecords(S)] :
            S \in SUBSET Urls}

\* the listing pages one after the other, each with any product links
Listings ==
  UNION {[1..n -> SUBSET Urls] : n \in 1..MaxPages}

\* load_existing_data(filename): the rows of the DataFrame it returns
load_existing_data(f) == IF f.exists /\ ~f.corrupt THEN f.records ELSE <<>>

\* set(existing_df['url']) if not existing_df.empty else set()
ProcessedUrls(d) == {d[i].url : i \in 1..Len(d)}

\* existing_df.to_csv(output_file, index=False)
ProductFile(d) == [exists |-> TRUE, corrupt |-> FALSE, records |-> d]

InitProducts ==
  /\ listing \in Listings
  /\ output_file \in InitialProductFiles
  /\ product_df = <<>>
  /\ existing_df = <<>>
  /\ new_urls = <<>>
  /\ saved = <<>>
  /\ stage = "start"
  /\ html = <<>>
  /\ month = 1
  /\ year = 2024
  /\ df = None
  /\ file = Absent
  /\ loaded = None
  /\ SyncIdle
  /\ RunsIdle
  /\ CleanIdle
  /\ calls = <<>>

\* what no step of the product scraper touches
ProductsFrame ==
  /\ UNCHANGED <<html, month, year, df, file, loaded>>
  /\ UNCHANGED svars
  /\ UNCHANGED steps
  /\ UNCHANGED cvars
  /\ UNCHANGED kvars
  /\ UNCHANGED hvars

\* df = load_existing_data(output_file); navigate_to_classics_page(driver)
LoadExistingData ==
  /\ stage = "start"
  /\ product_df' = load_existing_data(output_file)
  /\ stage' = "page"
  /\ UNCHANGED <<listing, output_file, existing_df, new_urls, saved>>
  /\ ProductsFrame

\* navigate_to_classics_page raises a WebDriverException: the run ends
NavigateFails ==
  /\ stage = "start"
  /\ product_df' = load_existing_data(output_file)
  /\ stage' = "failed"
  /\ UNCHANGED <<listing, output_file, existing_df, new_urls, saved>>
  /\ ProductsFrame

\* navigate_products(driver, df, output_file) up to its loop: the wait for
\* the product links (a TimeoutException when the page has none), product_urls,
\* processed_urls, new_urls
NavigateProducts ==
  /\ stage = "page"
  /\ IF Head(listing) = {}
       THEN /\ stage' = "failed"
            /\ UNCHANGED <<existing_df, new_urls>>
       ELSE /\ existing_df' = product_df
            /\ new_urls' =
                 SelectSeq(SortedSeq(Head(listing)),
                           LAMBDA url : url \notin ProcessedUrls(product_df))
            /\ stage' = "loop"
  /\ UNCHANGED <<listing, output_file, product_df, saved>>
  /\ ProductsFrame

\* one pass of the loop: the product page is fetched and scraped, the record
\* joined to existing_df and existing_df saved
ProcessProduct ==
  /\ stage \in {"loop", "visited"}
  /\ new_urls # <<>>
  /\ existing_df' = Append(existing_df, [url |-> Head(new_urls)])
  /\ output_file' = ProductFile(existing_df')
  /\ saved' = Append(saved, [before |-> load_existing_data(output_file),
                             after |-> existing_df'])
  /\ new_urls' = Tail(new_urls)
  /\ stage' = "visited"
  /\ UNCHANGED <<listing, product_df>>
  /\ ProductsFrame

\* one pass of the loop: driver.get(url) raises, the error is printed and the
\* loop goes on
ProductFails ==
  /\ stage \in {"loop", "visited"}
  /\ new_urls # <<>>
  /\ new_urls' = Tail(new_urls)
  /\ UNCHANGED <<stage, listing, output_file, product_df, existing_df, saved>>
  /\ ProductsFrame

\* navigate_products returns (fetch_product_data drops the value returned);
\* a [Next >>] link is found and clicked.  On the listing page there is one
\* when a page follows; whether the product page last shown carries one is
\* the site's matter.
NextPage ==
  /\ stage \in {"loop", "visited"}
  /\ new_urls = <<>>
  /\ Len(listing) > 1
  /\ listing' = Tail(listing)
  /\ stage' = "page"
  /\ UNCHANGED <<output_file, product_df, existing_df, new_urls, saved>>
  /\ ProductsFrame

\* navigate_products returns; no [Next >>] link is found on the page shown:
\* the loop over the pages ends
NoMorePages ==
  /\ stage \in {"loop", "visited"}
  /\ new_urls = <<>>
  /\ stage = "loop" => Len(listing) = 1
  /\ stage' = "done"
  /\ UNCHANGED <<listing, output_file, product_df, existing_df, new_urls, saved>>
  /\ ProductsFrame

NextProducts ==
  \/ LoadExistingData
  \/ NavigateFails
  \/ NavigateProducts
  \/ ProcessProduct
  \/ ProductFails
  \/ NextPage
  \/ NoMorePages

SpecProducts == InitProducts /\ [][NextProducts]_vars

(***************************************************************************)
(* Claims about update_google_sheet (Spec)                                 *)
(***************************************************************************)
\* the snapshot a call read, and the period of the table it was given
Snap(c) == SheetValues(c.before)

TableMonth(d) == d.rows[1][1].s

TableYearText(d) == IntToText(d.rows[1][2].n)

HasColumn(snap, name) == \E j \in 1..Len(snap[1]) : snap[1][j].s = name

\* the position in a row of the column the header names
ColumnPos(snap, name) ==
  CHOOSE j \in 1..Len(snap[1]) :
    snap[1][j].s = name /\ \A k \in 1..(j - 1) : snap[1][k].s # name

WellHeaded(snap) ==
  snap # <<>> /\ HasColumn(snap, C_Month) /\ HasColumn(snap, C_Year)

\* some row after the header has the month in its Month cell and the text of
\* the year in its Year cell
PeriodPresent(snap, d) ==
  \E i \in 2..Len(snap) :
    /\ ColumnPos(snap, C_Month) <= Len(snap[i])
    /\ ColumnPos(snap, C_Year) <= Len(snap[i])
    /\ snap[i][ColumnPos(snap, C_Month)].s = TableMonth(d)
    /\ snap[i][ColumnPos(snap, C_Year)].s = TableYearText(d)

\* the call got as far as its snapshot
ReadDone(c) == c.out.reads = 1 /\ c.fail # "read"

\* a table's data rows as the sheet takes them: numbers and texts as they
\* are, a missing value as the empty string
PayloadCell(v) == IF v.t = "nan" THEN StrV(<<>>) ELSE v

PayloadRows(d) ==
  [i \in 1..Len(d.rows) |-> [j \in 1..Len(d.rows[i]) |-> PayloadCell(d.rows[i][j])]]

\* C1 (as claimed): from a sheet that is empty or headed with Month and Year
\* and does not hold the table's period, two calls in a row with the same
\* table (remote calls succeeding) make exactly one values write: the first
\* returns True, the second False.
C1_Idempotent ==
  (/\ ncalls >= 2
   /\ prev.df = last.df
   /\ prev.fail = "none" /\ last.fail = "none"
   /\ Snap(prev) = <<>> \/ (WellHeaded(Snap(prev)) /\ ~PeriodPresent(Snap(prev), prev.df)))
  => /\ prev.out.ret = "True"
     /\ last.out.ret = "False"
     /\ Len(prev.out.writes) + Len(last.out.writes) = 1

\* C2: a call that read no rows writes the header row and the data rows at
\* row 1; a call that read H >= 1 rows and found no duplicate writes the data
\* rows alone at row H + 1.
C2_AppendLocation ==
  (ncalls >= 1 /\ ReadDone(last)) =>
    /\ Snap(last) = <<>> =>
         last.out.writes =
           <<[start_row |-> 1, values |-> <<HeaderCells>> \o PayloadRows(last.df)]>>
    /\ (WellHeaded(Snap(last)) /\ ~PeriodPresent(Snap(last), last.df)) =>
         last.out.writes =
           <<[start_row |-> Len(Snap(last)) + 1, values |-> PayloadRows(last.df)]>>

\* C2 witness: an append below two existing rows
C2_Witness ==
  /\ ncalls >= 1
  /\ Len(Snap(last)) >= 2
  /\ last.out.ret = "True"
  /\ last.out.writes[1].start_row = Len(Snap(last)) + 1
  /\ Len(last.out.sheet.cells) = Len(Snap(last)) + Len(last.df.rows)

\* C3: on a snapshot headed with Month and Year the call reports a duplicate
\* (returns False) exactly when some data row holds the month in its Month
\* cell and the text of the year in its Year cell; on an empty snapshot never.
C3_DuplicateDecision ==
  (ncalls >= 1 /\ ReadDone(last)) =>
    /\ WellHeaded(Snap(last)) =>
         (last.out.ret = "False" <=> PeriodPresent(Snap(last), last.df))
    /\ Snap(last) = <<>> => last.out.ret # "False"

\* C3 witness: a duplicate found in a row whose year the sheet holds as text
\* while the table holds it as a number
C3_Witness ==
  /\ ncalls >= 1
  /\ last.before = SheetMarText
  /\ last.out.ret = "False"

\* C4: a call whose snapshot holds the table's period makes no values write
\* and no formatting directive, leaves the sheet as it was and returns False.
C4_DuplicateNoOp ==
  (/\ ncalls >= 1 /\ ReadDone(last)
   /\ WellHeaded(Snap(last)) /\ PeriodPresent(Snap(last), last.df))
  => /\ last.out.writes = <<>>
     /\ last.out.formats = <<>>
     /\ last.out.sheet = last.before
     /\ sheet = last.before
     /\ last.out.ret = "False"

\* C4 witness: the second of two calls with one period is skipped, the period
\* standing below another period's rows
C4_Witness ==
  /\ ncalls >= 2
  /\ prev.out.ret = "True"
  /\ Len(Snap(prev)) >= 2
  /\ last.out.ret = "False"
  /\ sheet = last.before

\* C5: on a non-empty snapshot whose header lacks Month or Year the call
\* raises, with no values write and no formatting directive: the sheet is
\* unchanged.
C5_SchemaMismatch ==
  (/\ ncalls >= 1 /\ ReadDone(last)
   /\ Snap(last) # <<>> /\ ~WellHeaded(Snap(last)))
  => /\ last.out.ret = "raise"
     /\ last.out.writes = <<>>
     /\ last.out.formats = <<>>
     /\ sheet = last.before

\* C5 witness: a call on a sheet with data but no Month column
C5_Witness ==
  /\ ncalls >= 1
  /\ last.before = SheetNoMonth
  /\ last.fail = "none"
  /\ last.out.ret = "raise"

\* the remote call named by c.fail was made (and so failed)
FailedCallMade(c) ==
  \/ c.fail = "read" /\ c.out.reads = 1
  \/ c.fail = "write" /\ Len(c.out.writes) = 1
  \/ c.fail = "format" /\ Len(c.out.formats) = 1

NoRetry(c) ==
  c.out.reads <= 1 /\ Len(c.out.writes) <= 1 /\ Len(c.out.formats) <= 1

\* C6 (as claimed): a failure of any remote call made (the read, the values
\* write, the formatting directive) is raised to the caller, with no retry.
C6_FailuresPropagate ==
  (ncalls >= 1 /\ FailedCallMade(last)) =>
    last.out.ret = "raise" /\ NoRetry(last)

\* C6 (amended): a failure of the read or of the values write is raised to
\* the caller, no later remote call is made and the sheet is unchanged; a
\* failure of the formatting directive is not raised: the call returns True
\* with the values written.  No remote call is made twice.
C6_FailuresAmended ==
  ncalls >= 1 =>
    /\ NoRetry(last)
    /\ (last.fail = "read" /\ last.out.reads = 1) =>
         /\ last.out.ret = "raise"
         /\ last.out.writes = <<>> /\ last.out.formats = <<>>
         /\ sheet = last.before
    /\ (last.fail = "write" /\ Len(last.out.writes) = 1) =>
         /\ last.out.ret = "raise"
         /\ last.out.formats = <<>>
         /\ sheet = last.before
    /\ (last.fail = "format" /\ Len(last.out.formats) = 1) =>
         /\ last.out.ret = "True"
         /\ Len(last.out.writes) = 1
         /\ sheet.cells # last.before.cells
         /\ sheet.currency = last.before.currency

\* C6 witness: the formatting directive failed after a values write
C6_Witness ==
  /\ ncalls >= 1
  /\ last.fail = "format"
  /\ Len(last.out.formats) = 1
  /\ last.out.ret = "True"

(***************************************************************************)
(* Claims about process_sales_table and the snapshot store (SpecParse)     *)
(***************************************************************************)
\* the sample rows with exactly 7 cells whose units, net, rate and royalties
\* cells coerce, each with the record it stands for (spec 4.1, 8.3)
WellFormedSamples == {RowGood, RowZero, RowBlank, RowComma}

ExpectedRecord(cols) ==
  CASE cols = RowGood ->
         <<StrV(T_Acme), StrV(<<"A">>), StrV(T_S1), IntV(10), FloatV(10000),
           FloatV(1500), FloatV(1500)>>
    [] cols = RowZero ->
         <<StrV(T_Acme), StrV(<<"B">>), StrV(T_007), IntV(0), FloatV(0),
           FloatV(0), FloatV(0)>>
    [] cols = RowBlank ->
         <<StrV(T_Acme), StrV(<<"C">>), StrV(<<>>), IntV(0), FloatV(0),
           FloatV(0), FloatV(0)>>
    [] cols = RowComma ->
         <<StrV(T_Acme), StrV(T_DE), StrV(T_S2), IntV(3), FloatV(123450),
           FloatV(1250), FloatV(15431)>>

\* the rows after the header that are well-formed, in source order
ValidRows(rows) == SelectSeq(Tail(rows), LAMBDA r : r \in WellFormedSamples)

HasValidRow(rows) == rows # <<>> /\ ValidRows(rows) # <<>>

\* columns 3..9 of a table row: the SalesRecord
RecordOf(row) == SubSeq(row, 3, 9)

\* C7: where process_sales_table does not raise, its records are, in source
\* order, exactly the records of the well-formed rows after the header (7
\* cells, coercible numeric cells, blank coercing to 0): as many records as
\* well-formed rows, whatever malformed rows stand between them.
C7_RowParserExact ==
  (stage # "input" /\ df.kind # "raise") =>
    LET valid == IF html = <<>> THEN <<>> ELSE ValidRows(html) IN
      /\ Len(df.rows) = Len(valid)
      /\ \A i \in 1..Len(valid) : RecordOf(df.rows[i]) = ExpectedRecord(valid[i])

\* C7 witness: a malformed row stands between two well-formed ones and the
\* table holds the records of the two well-formed rows
C7_Witness ==
  /\ stage = "parsed"
  /\ df.kind = "df"
  /\ Len(html) = 4
  /\ html[2] \in WellFormedSamples
  /\ html[3] \notin WellFormedSamples
  /\ html[4] \in WellFormedSamples
  /\ Len(df.rows) = 2

\* C9 (as claimed): with a valid data row, a month in 1..12 gives a table that
\* carries the month's name and the year on every row, and any other month
\* number makes process_sales_table raise.
C9_MonthHandling ==
  (stage # "input" /\ HasValidRow(html)) =>
    IF month \in 1..12
      THEN /\ df.kind = "df"
           /\ \A i \in 1..Len(df.rows) :
                df.rows[i][1] = StrV(MonthNames[month + 1]) /\ df.rows[i][2] = IntV(year)
      ELSE df.kind = "raise"

\* cell-for-cell equality of two tables: same columns, same rows, each cell
\* of the same type and value
SameTable(a, b) == a.kind = "df" /\ b.kind = "df" /\ a.columns = b.columns /\ a.rows = b.rows

\* C10 (as claimed): the table loaded back after a save equals the saved
\* table field for field (stated for the tables of a month in 1..12).
C10_RoundTrip ==
  (stage = "loaded" /\ month \in 1..12) => SameTable(loaded, df)

(***************************************************************************)
(* Claims about the main flow (SpecMain)                                   *)
(***************************************************************************)
Took(step) == \E i \in 1..Len(steps) : steps[i] = step

\* C8: process_sales_table returns None, without raising, when the table has
\* fewer than two rows or no well-formed row after the header, and a table of
\* at least one record otherwise; a run whose result is None makes no local
\* save and no remote sync.
C8_EmptyIsAValue ==
  /\ (Took("fetch") /\ stage # "crashed") =>
       /\ df # Raised
       /\ df = None <=> (Len(html) < 2 \/ ~HasValidRow(html))
       /\ df # None => (df.kind = "df" /\ Len(df.rows) >= 1)
  /\ (stage = "done" /\ df = None) =>
       /\ ~Took("save") /\ ~Took("sync")
       /\ load_existing_report(file) = None
       /\ ncalls = 0 /\ last = NoCall /\ sheet \in MainSheets

\* C8 witness: a run that fetched a table of a header and malformed rows only
\* has ended with no save and no sync
C8_Witness ==
  /\ stage = "done"
  /\ df = None
  /\ Len(html) = 3
  /\ steps = <<"load", "fetch">>

(***************************************************************************)
(* Claims about load_existing_report (SpecLoad)                            *)
(***************************************************************************)
\* the file holds the whole of a saved table
HoldsCompleteTable(f, t) == f.exists /\ t.kind = "df" /\ f.text = to_csv(t)

\* the file holds the header line of a saved table and nothing more
HeaderOnly(f, t) == f.exists /\ t.kind = "df" /\ f.text = CsvLine(t.columns)

\* C11 (as claimed): load_existing_report never raises; it returns None when
\* no file exists and when the file is empty, header-only or cut off
\* mid-record; it returns a table only for a file that holds a complete saved
\* table.
C11_LoadAbsentOrCorrupt ==
  stage = "loaded" =>
    /\ loaded # Raised
    /\ ~HoldsCompleteTable(file, df) => loaded = None
    /\ loaded.kind = "df" => HoldsCompleteTable(file, df)

\* C11, what does hold: no raise; None for no file, for an empty file and for
\* a file that ends inside a quoted field; a table for a complete file.
C11_LoadNeverRaises ==
  stage = "loaded" =>
    /\ loaded # Raised
    /\ loaded.kind \in {"none", "df"}
    /\ (~file.exists \/ file.text = <<>>) => loaded = None
    /\ HoldsCompleteTable(file, df) => loaded.kind = "df"

\* a header-only file has been loaded as a table with no rows
C11_HeaderOnlyLoaded ==
  /\ stage = "loaded"
  /\ HeaderOnly(file, df)
  /\ loaded.kind = "df"
  /\ loaded.rows = <<>>

(***************************************************************************)
(* Claims about the snapshot cache over successive runs (SpecRuns)         *)
(***************************************************************************)
\* what load_existing_report gives for the snapshot of the clock's month
CachedNow == load_existing_report(FileAt(reports, get_report_filepath(now)))

\* the state of a run: its path is the one of the clock's year and month and
\* a save leaves the table there; a loaded table means no fetch and no save,
\* and is the table handed to update_google_sheet; a fetch means the load
\* returned None
CacheKeyState ==
  /\ stage # "start" => report_filepath = get_report_filepath(now)
  /\ Took("save") =>
       /\ loaded = None
       /\ Took("fetch")
       /\ df.kind = "df"
       /\ FileAt(reports, get_report_filepath(now)) = save_to_local_file(df)
  /\ (stage # "start" /\ ~Took("save")) => loaded = CachedNow
  /\ (stage # "start" /\ loaded # None) =>
       /\ ~Took("fetch") /\ ~Took("save")
       /\ df = loaded
       /\ stage \in {"sync", "done"}
       /\ stage = "done" => (Took("sync") /\ last.df = loaded)
  /\ Took("fetch") => loaded = None

\* a step changes no file but the one at the path of the clock's month
OnlyCurrentPathWritten ==
  [][\A path \in DOMAIN reports.files \cup DOMAIN reports'.files :
       path # get_report_filepath(now) =>
         /\ path \in DOMAIN reports.files
         /\ path \in DOMAIN reports'.files
         /\ reports'.files[path] = reports.files[path]]_vars

\* C12: the path of a run is the one of the clock's year and month at run
\* time, and a run writes no other file; a run that finds a loadable snapshot
\* at that path makes no fetch and no save, and hands the loaded table,
\* whatever its period, to update_google_sheet; a run fetches only when its
\* load returned None.
C12_WallClockCacheKey == []CacheKeyState /\ OnlyCurrentPathWritten

\* C12 witness: a second run finds at the path of the clock's month a
\* snapshot that holds last month's period, makes no fetch and hands that
\* table to update_google_sheet
C12_Witness ==
  /\ nruns = 2
  /\ stage = "done"
  /\ steps = <<"load", "sync">>
  /\ loaded.kind = "df"
  /\ loaded.rows # <<>>
  /\ last.df = loaded
  /\ loaded.rows[1][1].s = MonthName(LastMonth(now).month)
  /\ get_report_filepath(LastMonth(now)) \notin DOMAIN reports.files

(***************************************************************************)
(* Claims about the formatting directive and the cell cleaning rule (Spec) *)
(***************************************************************************)
\* one entry of the directive: the currency pattern on one column, from the
\* row below the header down
CurrencyEntry(column) ==
  [sheetId |-> 0, startColumnIndex |-> column, endColumnIndex |-> column + 1,
   startRowIndex |-> 1, type |-> "CURRENCY", pattern |-> "\"$\"#,##0.00",
   fields |-> "userEnteredFormat.numberFormat"]

\* the call found no duplicate and its values update succeeded
WriteSucceeded(c) ==
  /\ ReadDone(c)
  /\ Snap(c) = <<>> \/ (WellHeaded(Snap(c)) /\ ~PeriodPresent(Snap(c), c.df))
  /\ Len(c.out.writes) = 1
  /\ c.fail # "write"
  /\ c.out.sheet.cells =
       ValuesUpdate(c.before, c.out.writes[1].start_row, c.out.writes[1].values).cells

\* C13: a call issues the formatting directive at most once, and only after
\* its values update of a table that is no duplicate has succeeded: never
\* when the update was skipped or failed.  The directive has exactly two
\* entries, for the columns with zero-based indices 6 (Net) and 8
\* (Royalties), each from row index 1 down with the currency pattern.
C13_FormatAfterWrite ==
  ncalls >= 1 =>
    /\ Len(last.out.formats) <= 1
    /\ last.out.formats # <<>> =>
         /\ WriteSucceeded(last)
         /\ last.out.formats[1] = <<CurrencyEntry(6), CurrencyEntry(8)>>
    /\ (last.out.ret = "False" \/ last.fail \in {"read", "write"}) =>
         /\ last.out.formats = <<>>
         /\ sheet.currency = last.before.currency

\* C13 witness: the directive was issued and applied after an append below
\* the header of a sheet that carried no currency format
C13_Witness ==
  /\ ncalls >= 1
  /\ last.fail = "none"
  /\ last.out.ret = "True"
  /\ last.out.writes[1].start_row >= 2
  /\ Len(last.out.formats) = 1
  /\ last.before.currency = {}
  /\ sheet.currency = {6, 8}

(***************************************************************************)
(* Claims about clean_value_for_sheets (SpecClean)                         *)
(***************************************************************************)
\* t is s without its leading and trailing whitespace
IsTrimOf(t, s) ==
  \E i \in 1..(Len(s) + 1), j \in 0..Len(s) :
    /\ t = SubSeq(s, i, j)
    /\ \A k \in 1..(i - 1) : IsSpace(s[k])
    /\ \A k \in (j + 1)..Len(s) : IsSpace(s[k])
    /\ t # <<>> => (~IsSpace(t[1]) /\ ~IsSpace(t[Len(t)]))

\* C14: clean_value_for_sheets maps a missing value (NaN, None) to the empty
\* string, returns a number unchanged, and maps a text to the text without
\* its surrounding whitespace; its result is a number or a trimmed string, and
\* cleaning the result again returns it unchanged.
C14_CleaningRule ==
  /\ stage \in {"cleaned", "again"} =>
       /\ value.t \in {"nan", "none"} => cleaned = StrV(<<>>)
       /\ value.t \in {"int", "float"} => cleaned = value
       /\ value.t = "str" => (cleaned.t = "str" /\ IsTrimOf(cleaned.s, value.s))
       /\ \/ cleaned.t \in {"int", "float"}
          \/ cleaned.t = "str" /\ IsTrimOf(cleaned.s, cleaned.s)
  /\ stage = "again" => cleaned = value

\* C14 witness: a text with whitespace around it and inside it has been
\* cleaned to its trimmed form, and cleaned again without change
C14_Witness ==
  /\ stage = "again"
  /\ value = StrV(<<"a", " ", "b">>)
  /\ cleaned = value

(***************************************************************************)
(* Claims about the sheet after a sequence of calls (SpecAppend)           *)
(***************************************************************************)
\* two tables are of one period: the same month name and the same year
SamePeriod(a, b) ==
  a.rows[1][1].s = b.rows[1][1].s /\ a.rows[1][2].n = b.rows[1][2].n

\* the positions of the calls that were the first of their period
FirstOfPeriod(i) == \A j \in 1..(i - 1) : ~SamePeriod(calls[j], calls[i])

\* the data rows of the first call of each period among the first n calls, in
\* call order
RECURSIVE FirstRows(_)
FirstRows(n) ==
  IF n = 0 THEN <<>>
  ELSE FirstRows(n - 1) \o (IF FirstOfPeriod(n) THEN PayloadRows(calls[n]) ELSE <<>>)

\* the rows r1 are the first rows of r2
IsPrefix(r1, r2) == Len(r1) <= Len(r2) /\ SubSeq(r2, 1, Len(r1)) = r1

\* C15: after any sequence of calls with non-empty tables on a sheet that was
\* empty, every remote call succeeding, the sheet is one header row followed
\* by the data rows of the first call of each distinct period, in call order;
\* a call leaves the rows written before it as they were.
C15_ReachableSheetStates ==
  /\ calls = <<>> => sheet.cells = <<>>
  /\ calls # <<>> =>
       /\ sheet.cells = <<HeaderCells>> \o FirstRows(Len(calls))
       /\ IsPrefix(last.before.cells, sheet.cells)
       /\ last.out.ret = (IF FirstOfPeriod(Len(calls)) THEN "True" ELSE "False")

\* C15 witness: three calls, the third with another table of the first
\* call's period: the sheet holds the header, the first call's rows and the
\* second call's rows
C15_Witness ==
  /\ Len(calls) = 3
  /\ ~SamePeriod(calls[1], calls[2])
  /\ SamePeriod(calls[1], calls[3])
  /\ calls[1] # calls[3]
  /\ sheet.cells = <<HeaderCells>> \o PayloadRows(calls[1]) \o PayloadRows(calls[2])
  /\ last.out.ret = "False"

(***************************************************************************)
(* Claims about the product scraper (SpecProducts)                         *)
(***************************************************************************)
\* C16 (as claimed): every save of the product file holds the records of the
\* file as it was before the save, followed by the one product just scraped,
\* and the product's URL was not in the file before.
C16_ScraperMonotone ==
  \A k \in 1..Len(saved) :
    LET before == saved[k].before
        after == saved[k].after
    IN /\ Len(after) = Len(before) + 1
       /\ SubSeq(after, 1, Len(before)) = before
       /\ after[Len(after)].url \notin ProcessedUrls(before)

\* a save has dropped a record that the save before it had written
C16_RecordDropped ==
  /\ Len(saved) >= 2
  /\ \E u \in ProcessedUrls(saved[1].after) :
       /\ u \notin ProcessedUrls(product_df)
       /\ u \notin ProcessedUrls(output_file.records)

====
